---- MODULE Spec2Model ----
(***************************************************************************)
(* XML -> JSON converter (React single-page app).                          *)
(*                                                                         *)
(* Two builds of the App component exist in the repository:                *)
(*   "normalized"  src/unnamed/part_000 : xml2js + normalizeXmlJs +        *)
(*                                        JSON.stringify                   *)
(*   "raw"         src/src/App.jsx      : xml2json with options.spaces     *)
(* Both are modelled; the variable `build` selects which one is running.   *)
(*                                                                         *)
(* JavaScript values are encoded uniformly as records                      *)
(*   [t |-> "str" | "arr" | "obj", s |-> <string>, e |-> <entries>]        *)
(* where the entries are the ordered own properties [k |-> key, v |-> val] *)
(* (insertion order, as Object.entries reports them); an array's keys are  *)
(* its indices.                                                            *)
(***************************************************************************)
EXTENDS Integers, Sequences, FiniteSets, TLC

VARIABLES
    build,          \* which App component is running
    xml,            \* useState('')   : the input text
    json,           \* useState('')   : the JSON output
    error,          \* useState('')   : the error message
    pretty,         \* useState(true) : the Pretty toggle
    isDragOver,     \* useState(false): drag highlight (normalized build only)
    options,        \* the value memoised by useMemo
    onConvertEnv,   \* what the current onConvert closure captured
    inflight,       \* file.text() promises not yet resolved
    nextRead,       \* number of file reads started so far
    lastAction,     \* the handler that ran last: "Convert", "Download" or "Other"
    artifact,       \* <<content>> of the blob a Download just produced, else <<>>
    parsed,         \* whether the handler that ran last called the XML parser
    lastSuccess,    \* history: result of the most recent successful conversion
    lastValue,      \* history: the value that conversion serialised
    provided,       \* history: files provided since the last other input change
    node,           \* normalizer harness: the input node
    prefixAttr,     \* normalizer harness: the prefixAttr option
    result,         \* normalizer harness: the value returned
    npc             \* normalizer harness: "ready" | "done"

vars == <<build, xml, json, error, pretty, isDragOver, options, onConvertEnv,
          inflight, nextRead, lastAction, artifact, parsed, lastSuccess,
          lastValue, provided, node, prefixAttr, result, npc>>

uiVars == <<build, xml, json, error, pretty, isDragOver, options, onConvertEnv,
            inflight, nextRead, lastAction, artifact, parsed, lastSuccess,
            lastValue, provided>>

nVars == <<node, prefixAttr, result, npc>>

(***************************************************************************)
(* Bounds                                                                  *)
(***************************************************************************)
MaxReads == 2       \* file reads started in one behaviour
MaxSiblings == 2    \* longest run of repeated sibling tags generated

(***************************************************************************)
(* JavaScript values                                                       *)
(***************************************************************************)
Str(s) == [t |-> "str", s |-> s, e |-> <<>>]

Obj(entries) == [t |-> "obj", s |-> "", e |-> entries]

Arr(items) ==
    [t |-> "arr", s |-> "",
     e |-> [i \in 1..Len(items) |-> [k |-> ToString(i - 1), v |-> items[i]]]]

Prop(k, v) == [k |-> k, v |-> v]

\* Object.keys(node), in order
Keys(n) == [i \in 1..Len(n.e) |-> n.e[i].k]

KeySet(n) == {n.e[i].k : i \in 1..Len(n.e)}

Has(n, k) == k \in KeySet(n)

\* node[k] for an own property k
Get(n, k) == n.e[CHOOSE i \in 1..Len(n.e) : n.e[i].k = k].v

\* out[k] = v on an ordered property list: an existing key keeps its place
Put(entries, k, v) ==
    IF \E i \in 1..Len(entries) : entries[i].k = k
    THEN [i \in 1..Len(entries) |->
             IF entries[i].k = k THEN Prop(k, v) ELSE entries[i]]
    ELSE Append(entries, Prop(k, v))

(***************************************************************************)
(* normalizeXmlJs  (src/unnamed/part_000:9-32)                             *)
(***************************************************************************)
\* variant: flattens whenever a _text key is present
IsTextOnlyLoose(keys) == \E i \in 1..Len(keys) : keys[i] = "_text"

\* line 15: keys.length === 1 && keys[0] === '_text'
IsTextOnly(keys) == Len(keys) = 1 /\ keys[1] = "_text"

\* variant: the prefix is never applied
AttrKeyBare(k, prefix) == k

\* line 21: const key = prefixAttr ? `_${k}` : k
AttrKey(k, prefix) == IF prefix THEN "_" \o k ELSE k

\* line 19: node._attributes && typeof node._attributes === 'object'
HasAttributes(n) == Has(n, "_attributes") /\ Get(n, "_attributes").t # "str"

\* variant: the second loop copies _text through
IsSentinelNoText(k) == k \in {"_attributes", "_declaration"}

\* line 26: the keys the second loop skips
IsSentinel(k) == k \in {"_attributes", "_text", "_declaration"}

\* lines 20-23: copy the attributes into out
RECURSIVE AssignAttrs(_, _, _, _)
AssignAttrs(out, attrs, i, prefix) ==
    IF i > Len(attrs) THEN out
    ELSE AssignAttrs(Put(out, AttrKey(attrs[i].k, prefix), attrs[i].v),
                     attrs, i + 1, prefix)

RECURSIVE normalizeXmlJs(_, _)
\* lines 25-28: copy every other property, normalized
RECURSIVE AssignChildren(_, _, _, _)
AssignChildren(out, props, i, prefix) ==
    IF i > Len(props) THEN out
    ELSE IF IsSentinel(props[i].k)
         THEN AssignChildren(out, props, i + 1, prefix)
         ELSE AssignChildren(
                  Put(out, props[i].k, normalizeXmlJs(props[i].v, prefix)),
                  props, i + 1, prefix)

\* variant: the items come out in reverse order
MapNormalizeReversed(items, prefix) ==
    [i \in 1..Len(items) |-> normalizeXmlJs(items[Len(items) + 1 - i].v, prefix)]

\* lines 10-12: node.map((n) => normalizeXmlJs(n, { prefixAttr }))
MapNormalize(items, prefix) ==
    [i \in 1..Len(items) |-> normalizeXmlJs(items[i].v, prefix)]

normalizeXmlJs(n, prefix) ==
    IF n.t = "arr" THEN Arr(MapNormalize(n.e, prefix))
    ELSE IF n.t = "obj" THEN
        IF IsTextOnly(Keys(n)) THEN Get(n, "_text")
        ELSE LET withAttrs ==
                     IF HasAttributes(n)
                     THEN AssignAttrs(<<>>, Get(n, "_attributes").e, 1, prefix)
                     ELSE <<>>
             IN  Obj(AssignChildren(withAttrs, n.e, 1, prefix))
    ELSE n

(***************************************************************************)
(* JSON.stringify(value, null, indent)                                     *)
(***************************************************************************)
RECURSIVE Spaces(_)
Spaces(k) == IF k = 0 THEN "" ELSE " " \o Spaces(k - 1)

Quote(s) == "\"" \o s \o "\""

RECURSIVE Join(_, _, _)
Join(parts, i, sep) ==
    IF i > Len(parts) THEN ""
    ELSE IF i = Len(parts) THEN parts[i]
    ELSE parts[i] \o sep \o Join(parts, i + 1, sep)

RECURSIVE Ser(_, _, _)
Ser(v, gap, cur) ==
    IF v.t = "str" THEN Quote(v.s)
    ELSE LET inner == cur \o gap
             colon == IF gap = "" THEN ":" ELSE ": "
             parts == [i \in 1..Len(v.e) |->
                          IF v.t = "arr" THEN Ser(v.e[i].v, gap, inner)
                          ELSE Quote(v.e[i].k) \o colon \o Ser(v.e[i].v, gap, inner)]
             open == IF v.t = "arr" THEN "[" ELSE "{"
             close == IF v.t = "arr" THEN "]" ELSE "}"
         IN  IF Len(v.e) = 0 THEN open \o close
             ELSE IF gap = "" THEN open \o Join(parts, 1, ",") \o close
             ELSE open \o "\n" \o inner \o Join(parts, 1, ",\n" \o inner)
                       \o "\n" \o cur \o close

JSONStringify(v, indent) == Ser(v, Spaces(indent), "")

(***************************************************************************)
(* The XML parser (xml-js, compact form) on the input texts considered.    *)
(* Each document is listed with the compact tree xml-js builds for it:     *)
(* the declaration entries (kept only when ignoreDeclaration is false) and *)
(* the entries of the root object.                                         *)
(***************************************************************************)
TextLeaf(s) == Obj(<<Prop("_text", Str(s))>>)

Attrs(props) == Prop("_attributes", Obj(props))

Declaration == <<Prop("_declaration", Obj(<<Attrs(<<Prop("version", Str("1.0"))>>)>>))>>

BlankTexts == {"", "  "}

Docs ==
    { [text |-> "<a><b></a>", wellFormed |-> FALSE,
       message |-> "Unexpected close tag", declaration |-> <<>>, root |-> <<>>],
      [text |-> "<?xml version=\"1.0\"?><a>hello</a>", wellFormed |-> TRUE,
       message |-> "", declaration |-> Declaration,
       root |-> <<Prop("a", TextLeaf("hello"))>>],
      [text |-> "<a text=\"x\"/>", wellFormed |-> TRUE,
       message |-> "", declaration |-> <<>>,
       root |-> <<Prop("a", Obj(<<Attrs(<<Prop("text", Str("x"))>>)>>))>>],
      [text |-> "<r><a>1</a><a>2</a></r>", wellFormed |-> TRUE,
       message |-> "", declaration |-> <<>>,
       root |-> <<Prop("r", Obj(<<Prop("a", Arr(<<TextLeaf("1"), TextLeaf("2")>>))>>))>>] }

DocTexts == {d.text : d \in Docs}

Texts == BlankTexts \cup DocTexts

\* the contents of the files the user can provide
FileTexts == {"<a><b></a>", "<r><a>1</a><a>2</a></r>"}

DocOf(text) == CHOOSE d \in Docs : d.text = text

\* !xml.trim()
IsBlank(text) == text \in BlankTexts

\* xml2js(xml, options): throws (ok = FALSE) or returns the compact tree
xml2js(text, opts) ==
    LET d == DocOf(text)
    IN  IF ~d.wellFormed
        THEN [ok |-> FALSE, message |-> d.message, value |-> Str("")]
        ELSE [ok |-> TRUE, message |-> "",
              value |-> Obj((IF opts.ignoreDeclaration THEN <<>> ELSE d.declaration)
                            \o d.root)]

(***************************************************************************)
(* The App component: hooks                                                *)
(***************************************************************************)
Builds == {"normalized", "raw"}

\* useMemo(() => ({...}), deps): the memoised options object
MemoOptions(b, p) ==
    IF b = "raw"
    THEN [ignoreDeclaration |-> FALSE, spaces |-> IF p THEN 2 ELSE 0]
    ELSE [ignoreDeclaration |-> TRUE, spaces |-> 0]

\* the dependency list of that useMemo: [pretty] in the raw build, [] otherwise
OptionsDeps(b, p) == IF b = "raw" THEN <<p>> ELSE <<>>

\* the dependency list of useCallback(onConvert): [xml, options]
ConvertDeps(x, o, p) == <<x, o>>

\* One render after the state updates of a handler: the memo and the callback
\* are recomputed only when one of their dependencies changed.
Render(x2, p2) ==
    /\ options' = IF OptionsDeps(build, p2) # OptionsDeps(build, pretty)
                  THEN MemoOptions(build, p2)
                  ELSE options
    /\ onConvertEnv' =
           IF ConvertDeps(x2, options', p2) # ConvertDeps(xml, options, pretty)
           THEN [xml |-> x2, options |-> options', pretty |-> p2]
           ELSE onConvertEnv

(***************************************************************************)
(* onConvert                                                               *)
(***************************************************************************)
\* e?.message || 'Failed to convert XML'
ErrMsg(m) == IF m = "" THEN "Failed to convert XML" ELSE m

\* variant: the blank branch forgets setJson('')
OnBlankKeepsOutput == [json |-> json, error |-> ""]

\* setError(''); if (!xml.trim()) { setJson(''); return }
OnBlank == [json |-> "", error |-> ""]

\* variant: the catch block forgets setJson('')
OnThrowKeepsOutput(m) == [json |-> json, error |-> ErrMsg(m)]

\* catch (e) { setJson(''); setError(...) }
OnThrow(m) == [json |-> "", error |-> ErrMsg(m)]

\* the value the build serialises: the normalized tree, or the compact tree
ConvertedValue(b, tree) ==
    IF b = "raw" THEN tree ELSE normalizeXmlJs(tree, TRUE)

\* the indentation the running closure serialises with
ConvertIndent(b, env) ==
    IF b = "raw" THEN env.options.spaces
    ELSE IF env.pretty THEN 2 ELSE 0

Convert ==
    LET env == onConvertEnv IN
    /\ IF IsBlank(env.xml)
       THEN /\ json' = OnBlank.json
            /\ error' = OnBlank.error
            /\ parsed' = FALSE
            /\ UNCHANGED <<lastSuccess, lastValue>>
       ELSE LET r == xml2js(env.xml, env.options) IN
            /\ parsed' = TRUE
            /\ IF r.ok
               THEN LET v == ConvertedValue(build, r.value)
                        out == JSONStringify(v, ConvertIndent(build, env))
                    IN  /\ json' = out
                        /\ error' = ""
                        /\ lastSuccess' = out
                        /\ lastValue' = v
               ELSE /\ json' = OnThrow(r.message).json
                    /\ error' = OnThrow(r.message).error
                    /\ UNCHANGED <<lastSuccess, lastValue>>
    /\ Render(xml, pretty)
    /\ lastAction' = "Convert"
    /\ artifact' = <<>>
    /\ UNCHANGED <<build, xml, pretty, isDragOver, inflight, nextRead, provided>>

(***************************************************************************)
(* The other handlers                                                      *)
(***************************************************************************)
\* textarea onChange: setXml(e.target.value)
Edit(t) ==
    /\ t # xml
    /\ xml' = t
    /\ Render(t, pretty)
    /\ lastAction' = "Other"
    /\ artifact' = <<>>
    /\ parsed' = FALSE
    /\ provided' = <<>>
    /\ UNCHANGED <<build, json, error, pretty, isDragOver, inflight, nextRead,
                   lastSuccess, lastValue>>

\* checkbox onChange: setPretty(e.target.checked)
TogglePretty ==
    /\ pretty' = ~pretty
    /\ Render(xml, ~pretty)
    /\ lastAction' = "Other"
    /\ artifact' = <<>>
    /\ parsed' = FALSE
    /\ UNCHANGED <<build, xml, json, error, isDragOver, inflight, nextRead,
                   lastSuccess, lastValue, provided>>

\* Clear: setXml(''); setJson(''); setError('')
Clear ==
    /\ xml' = ""
    /\ json' = ""
    /\ error' = ""
    /\ Render("", pretty)
    /\ lastAction' = "Other"
    /\ artifact' = <<>>
    /\ parsed' = FALSE
    /\ provided' = <<>>
    /\ UNCHANGED <<build, pretty, isDragOver, inflight, nextRead, lastSuccess,
                   lastValue>>

\* variant: the Download button is never disabled
DownloadAlwaysEnabled == TRUE

\* <button disabled={!json}>: the Download button can be clicked
DownloadEnabled == json # ""

\* new Blob([json || '']) saved as converted.json
Download ==
    /\ DownloadEnabled
    /\ artifact' = <<json>>
    /\ lastAction' = "Download"
    /\ parsed' = FALSE
    /\ UNCHANGED <<build, xml, json, error, pretty, isDragOver, options,
                   onConvertEnv, inflight, nextRead, lastSuccess, lastValue,
                   provided>>

\* onFileChange(file) up to the await: file.text() is started
StartRead(text) ==
    /\ nextRead < MaxReads
    /\ nextRead' = nextRead + 1
    /\ inflight' = inflight \cup {[id |-> nextRead + 1, text |-> text]}
    /\ provided' = Append(provided, [id |-> nextRead + 1, text |-> text])

\* <input type="file"> onChange with a file chosen
Upload(text) ==
    /\ StartRead(text)
    /\ lastAction' = "Other"
    /\ artifact' = <<>>
    /\ parsed' = FALSE
    /\ UNCHANGED <<build, xml, json, error, pretty, isDragOver, options,
                   onConvertEnv, lastSuccess, lastValue>>

\* onFileChange(undefined): if (!file) return
UploadNone ==
    /\ lastAction' = "Other"
    /\ artifact' = <<>>
    /\ parsed' = FALSE
    /\ UNCHANGED <<build, xml, json, error, pretty, isDragOver, options,
                   onConvertEnv, inflight, nextRead, lastSuccess, lastValue,
                   provided>>

\* the drop handler's own state update: setIsDragOver(false), normalized build
DropHighlight == IF build = "normalized" THEN FALSE ELSE isDragOver

\* onDrop with a file in the data transfer
Drop(text) ==
    /\ StartRead(text)
    /\ isDragOver' = DropHighlight
    /\ lastAction' = "Other"
    /\ artifact' = <<>>
    /\ parsed' = FALSE
    /\ UNCHANGED <<build, xml, json, error, pretty, options, onConvertEnv,
                   lastSuccess, lastValue>>

\* onDrop without a file
DropNone ==
    /\ isDragOver' = DropHighlight
    /\ lastAction' = "Other"
    /\ artifact' = <<>>
    /\ parsed' = FALSE
    /\ UNCHANGED <<build, xml, json, error, pretty, options, onConvertEnv,
                   inflight, nextRead, lastSuccess, lastValue, provided>>

\* onDragOver: if (!isDragOver) setIsDragOver(true); no state in the raw build
DragOver ==
    /\ isDragOver' = IF build = "normalized" THEN TRUE ELSE isDragOver
    /\ lastAction' = "Other"
    /\ artifact' = <<>>
    /\ parsed' = FALSE
    /\ UNCHANGED <<build, xml, json, error, pretty, options, onConvertEnv,
                   inflight, nextRead, lastSuccess, lastValue, provided>>

\* onDragLeave: setIsDragOver(false); the raw build has no such handler
DragLeave ==
    /\ build = "normalized"
    /\ isDragOver' = FALSE
    /\ lastAction' = "Other"
    /\ artifact' = <<>>
    /\ parsed' = FALSE
    /\ UNCHANGED <<build, xml, json, error, pretty, options, onConvertEnv,
                   inflight, nextRead, lastSuccess, lastValue, provided>>

\* the continuation of onFileChange after the await: setXml(text)
ReadDone(r) ==
    /\ r \in inflight
    /\ inflight' = inflight \ {r}
    /\ xml' = r.text
    /\ Render(r.text, pretty)
    /\ provided' = IF \E i \in 1..Len(provided) : provided[i].id = r.id
                   THEN provided ELSE <<>>
    /\ lastAction' = "Other"
    /\ artifact' = <<>>
    /\ parsed' = FALSE
    /\ UNCHANGED <<build, json, error, pretty, isDragOver, nextRead,
                   lastSuccess, lastValue>>

(***************************************************************************)
(* Specification of the App                                                *)
(***************************************************************************)
UIInit ==
    /\ build \in Builds
    /\ xml = ""
    /\ json = ""
    /\ error = ""
    /\ pretty = TRUE
    /\ isDragOver = FALSE
    /\ options = MemoOptions(build, TRUE)
    /\ onConvertEnv = [xml |-> "", options |-> MemoOptions(build, TRUE),
                       pretty |-> TRUE]
    /\ inflight = {}
    /\ nextRead = 0
    /\ lastAction = "Other"
    /\ artifact = <<>>
    /\ parsed = FALSE
    /\ lastSuccess = ""
    /\ lastValue = Str("")
    /\ provided = <<>>

IdleHarness ==
    /\ node = Str("")
    /\ prefixAttr = TRUE
    /\ result = Str("")
    /\ npc = "idle"

Init == UIInit /\ IdleHarness

Next ==
    \/ \E t \in Texts : Edit(t) /\ UNCHANGED nVars
    \/ TogglePretty /\ UNCHANGED nVars
    \/ Convert /\ UNCHANGED nVars
    \/ Clear /\ UNCHANGED nVars
    \/ Download /\ UNCHANGED nVars
    \/ \E t \in FileTexts : Upload(t) /\ UNCHANGED nVars
    \/ UploadNone /\ UNCHANGED nVars
    \/ \E t \in FileTexts : Drop(t) /\ UNCHANGED nVars
    \/ DropNone /\ UNCHANGED nVars
    \/ DragOver /\ UNCHANGED nVars
    \/ DragLeave /\ UNCHANGED nVars
    \/ \E r \in inflight : ReadDone(r) /\ UNCHANGED nVars

Spec == Init /\ [][Next]_vars

(***************************************************************************)
(* Normalizer harness: normalizeXmlJs applied to generated compact trees   *)
(***************************************************************************)
AttrLists == {<<>>, <<"id">>, <<"text">>, <<"id", "x">>}

TextOpts == {<<>>, <<"hi">>}

ChildNames == {"b", "id", "_id"}

AttrProps(names) == [i \in 1..Len(names) |-> Prop(names[i], Str("v-" \o names[i]))]

\* the compact object of one element: declaration, attributes, text, children
Element(names, text, decl, kids) ==
    Obj((IF decl THEN Declaration ELSE <<>>)
        \o (IF names = <<>> THEN <<>> ELSE <<Attrs(AttrProps(names))>>)
        \o (IF text = <<>> THEN <<>> ELSE <<Prop("_text", Str(text[1]))>>)
        \o kids)

\* elements without child elements
Leaves == {Element(a, t, FALSE, <<>>) : a \in AttrLists, t \in TextOpts}

Siblings == {TextLeaf("1"), TextLeaf("2"), Element(<<"id">>, <<>>, FALSE, <<>>)}

\* repeated sibling tags: xml-js collects them into one array
Repeated == UNION {{Arr(q) : q \in [1..n -> Siblings]} : n \in 2..MaxSiblings}

KidLists ==
    {<<>>}
    \cup {<<Prop(k, c)>> : k \in ChildNames, c \in Leaves}
    \cup {<<Prop("b", a)>> : a \in Repeated}
    \cup {<<Prop("b", c), Prop("_id", d)>> : c \in Siblings, d \in Siblings}

GenNodes ==
    {Element(a, t, d, kids) :
        a \in AttrLists, t \in TextOpts, d \in BOOLEAN, kids \in KidLists}
    \cup Repeated
    \cup {Str("hi")}

NInit ==
    /\ node \in GenNodes
    /\ prefixAttr \in BOOLEAN
    /\ result = Str("")
    /\ npc = "ready"

\* one call normalizeXmlJs(node, { prefixAttr })
Normalize ==
    /\ npc = "ready"
    /\ result' = normalizeXmlJs(node, prefixAttr)
    /\ npc' = "done"
    /\ UNCHANGED <<node, prefixAttr>>

InitN == UIInit /\ build = "normalized" /\ NInit

NextN == Normalize /\ UNCHANGED uiVars

SpecN == InitN /\ [][NextN]_vars

(***************************************************************************)
(* Properties                                                              *)
(***************************************************************************)
SentinelKeys == {"_declaration", "_attributes", "_text"}

RECURSIVE HasSentinelKey(_)
HasSentinelKey(v) ==
    \/ v.t = "obj" /\ KeySet(v) \cap SentinelKeys # {}
    \/ \E i \in 1..Len(v.e) : HasSentinelKey(v.e[i].v)

\* the keys of a compact object that name child elements
ChildKeys(n) == KeySet(n) \ SentinelKeys

\* the attributes of a compact object, as properties
AttrsOf(n) == IF Has(n, "_attributes") THEN Get(n, "_attributes").e ELSE <<>>

Prefixed(k) == IF prefixAttr THEN "_" \o k ELSE k

ConvertSucceeded == lastAction = "Convert" /\ parsed /\ error = ""

\* C1: the output of a successful conversion has none of the keys
\* _declaration, _attributes, _text at any depth.
C1_NoSentinelKeys == ConvertSucceeded => ~HasSentinelKey(lastValue)

\* C2: a non-empty error message implies an empty JSON output.
C2_ErrorImpliesNoOutput == error # "" => json = ""

\* C2 witness: a failed Convert discarded the output of an earlier success.
C2_FailedAfterSuccess ==
    lastAction = "Convert" /\ parsed /\ error # "" /\ json = "" /\ lastSuccess # ""

\* C3: a successful Convert serialises with the indentation the Pretty
\* toggle selects at the moment of the click.
C3_ConvertUsesCurrentPretty ==
    ConvertSucceeded => json = JSONStringify(lastValue, IF pretty THEN 2 ELSE 0)

\* C4: an object whose only key is _text normalizes to that bare text;
\* an object with any other key set normalizes to an object.
C4_TextOnlyFlattened ==
    (npc = "done" /\ node.t = "obj") =>
        IF KeySet(node) = {"_text"}
        THEN result.t = "str" /\ result = Get(node, "_text")
        ELSE result.t = "obj"

\* C4 witness: a pure text leaf was normalized to its string.
C4_LeafNormalized ==
    npc = "done" /\ node.t = "obj" /\ KeySet(node) = {"_text"} /\ result = Str("hi")

\* the array r is the item-by-item normalization of the array a
MappedArray(a, r) ==
    /\ r.t = "arr"
    /\ Len(r.e) = Len(a.e)
    /\ \A i \in 1..Len(a.e) :
           /\ r.e[i].k = a.e[i].k
           /\ r.e[i].v = normalizeXmlJs(a.e[i].v, prefixAttr)
           /\ a.e[i].v = TextLeaf("1") => r.e[i].v = Str("1")
           /\ a.e[i].v = TextLeaf("2") => r.e[i].v = Str("2")

\* C5: a sequence of nodes under a child key normalizes to an array of the
\* same length, item by item and in order; a single child is not wrapped.
C5_RepeatedChildrenMapped ==
    npc = "done" =>
        /\ node.t = "arr" => MappedArray(node, result)
        /\ (node.t = "obj" /\ KeySet(node) # {"_text"}) =>
               \A k \in ChildKeys(node) :
                   /\ Has(result, k)
                   /\ IF Get(node, k).t = "arr"
                      THEN MappedArray(Get(node, k), Get(result, k))
                      ELSE Get(result, k).t # "arr"

\* C5 witness: two repeated siblings became a two-item array, order kept.
C5_SiblingsNormalized ==
    /\ npc = "done" /\ node.t = "obj" /\ Has(node, "b")
    /\ Get(node, "b") = Arr(<<TextLeaf("1"), TextLeaf("2")>>)
    /\ Get(result, "b") = Arr(<<Str("1"), Str("2")>>)

\* C6: every attribute (k, v) appears under "_"+k (k when prefixing is off)
\* with value v, unless a child element has that name, and then the key
\* holds the normalized child.
C6_AttributesMerged ==
    (npc = "done" /\ node.t = "obj" /\ AttrsOf(node) # <<>>) =>
        /\ result.t = "obj"
        /\ \A i \in 1..Len(AttrsOf(node)) :
               LET k == AttrsOf(node)[i].k
                   v == AttrsOf(node)[i].v
               IN  /\ Has(result, Prefixed(k))
                   /\ IF Prefixed(k) \in ChildKeys(node)
                      THEN Get(result, Prefixed(k)) =
                               normalizeXmlJs(Get(node, Prefixed(k)), prefixAttr)
                      ELSE Get(result, Prefixed(k)) = v

\* C6 witness: attribute id and child element _id collide; the child wins.
C6_ChildOverwritesAttribute ==
    /\ npc = "done" /\ prefixAttr /\ node.t = "obj"
    /\ \E i \in 1..Len(AttrsOf(node)) : AttrsOf(node)[i].k = "id"
    /\ Has(node, "_id") /\ Get(node, "_id") = TextLeaf("1")
    /\ Get(result, "_id") = Str("1")
    /\ Has(result, "_x") /\ Get(result, "_x") = Str("v-x")

\* C7: a Convert on empty or whitespace-only input ends with the output
\* and the error both empty, and does not call the parser.
C7_BlankConvertClears ==
    (lastAction = "Convert" /\ IsBlank(xml)) =>
        json = "" /\ error = "" /\ ~parsed

\* C7 witness: a Convert on whitespace-only input after an earlier success.
C7_BlankAfterSuccess ==
    /\ lastAction = "Convert" /\ xml = "  " /\ lastSuccess # ""
    /\ json = "" /\ error = "" /\ ~parsed

\* C8: whenever Download runs, converted.json holds exactly the output of
\* the most recent successful conversion.
C8_DownloadIsLastSuccess ==
    lastAction = "Download" => artifact = <<lastSuccess>>

\* C8 witness: a Download of a real output, the input edited since.
C8_Downloaded ==
    /\ lastAction = "Download" /\ lastSuccess # ""
    /\ artifact = <<lastSuccess>> /\ IsBlank(xml)

\* C9: an element with text and at least one attribute or child normalizes
\* to an object whose keys are exactly the prefixed attribute names and the
\* child element names; nothing is synthesized for the text.
C9_MixedTextDropped ==
    (/\ npc = "done" /\ node.t = "obj" /\ Has(node, "_text")
     /\ (AttrsOf(node) # <<>> \/ ChildKeys(node) # {})) =>
        /\ result.t = "obj"
        /\ KeySet(result) =
               {Prefixed(AttrsOf(node)[i].k) : i \in 1..Len(AttrsOf(node))}
               \cup ChildKeys(node)

\* C9 witness: text beside an attribute and a child; only _id and b remain.
C9_TextLost ==
    /\ npc = "done" /\ prefixAttr /\ node.t = "obj"
    /\ Has(node, "_text") /\ Get(node, "_text") = Str("hi")
    /\ Has(node, "_attributes") /\ Has(node, "b")
    /\ KeySet(result) = {"_id", "b"}

\* C10: file A then file B with no other change to the input: once both
\* reads have completed, the input is the content of B.
C10_LastProvidedFileWins ==
    (Len(provided) = 2 /\ inflight = {}) => xml = provided[2].text

====
